---------------------------- MODULE Spec2Model ----------------------------
(***************************************************************************)
(* State-machine model of the concurrent acquisition layer of the          *)
(* treasury reference-data fetchers:                                       *)
(*   fetch_treasuries.get_historical_treasury_auctions   (page wave)       *)
(*   fetch_treasuries.fetch_historical_prices            (date wave)       *)
(*   cme_quikstrike.get_cme_delivery_basket              (tenor wave)      *)
(*   schwab_treasuries.schwab_treasury_cusip_search      (cusip wave)      *)
(*   fetch_treasuries.multi_download_year_treasury_par_yield_curve_rate    *)
(*                                                       (year wave)       *)
(* Every wave is one asyncio.run over one asyncio.gather of the tasks:     *)
(* the tasks are started in list order, each runs to its first await (the  *)
(* request), and from then on the event loop resumes them in whatever      *)
(* order the responses arrive.  A task's handler between two awaits runs   *)
(* without preemption, so it is one step of the model.                     *)
(***************************************************************************)
EXTENDS Integers, Sequences, FiniteSets, TLC

\* ------------------------------------------------------------------ bounds

\* Largest number of keys (dates, cusips) a caller passes to a keyed fetcher.
MaxKeys == 2

\* Largest number of full pages the probe's total-count is drawn around.
MaxPages == 2

\* Largest number of records the server puts in one page's "data" array.
MaxPageLen == 2

\* ------------------------------------------------------- program constants

\* get_treasury_query_sizing: MAX_TREASURY_GOV_API_CONTENT_SIZE
MAX_TREASURY_GOV_API_CONTENT_SIZE == 10000

\* ------------------------------------------------------------ value spaces

DateUniverse == {"d1", "d2"}
CusipUniverse == {"A", "B"}

\* get_cme_delivery_basket: the labels of event_targets, in dict order
EventTargets ==
    << "2 Yr", "3 Yr", "5 Yr", "10 Yr", "Ultra 10 Yr", "T-Bond", "20 Yr",
       "Ultra T_Bond" >>

\* ---------------------------------------------------------------- helpers

Range(s) == {s[i] : i \in DOMAIN s}

SeqsUpTo(S, n) == UNION {[1..k -> S] : k \in 0..n}

\* sequences over S without a repeated element
DistinctSeqs(S) ==
    {s \in SeqsUpTo(S, Cardinality(S)) :
        \A i, j \in DOMAIN s : i # j => s[i] # s[j]}

MaxOf(S) == CHOOSE x \in S : \A y \in S : y <= x

MinOf(S) == CHOOSE x \in S : \A y \in S : x <= y

RECURSIVE Flatten(_)
\* [item for sublist in results for item in sublist]
Flatten(ss) == IF ss = << >> THEN << >> ELSE Head(ss) \o Flatten(Tail(ss))

RECURSIVE SumLens(_)
SumLens(ss) == IF ss = << >> THEN 0 ELSE Len(Head(ss)) + SumLens(Tail(ss))

\* the rows of t, in order, that satisfy Keep
SelectRows(t, Keep(_)) == SelectSeq(t, Keep)

\* a merge that leaves out the pairs whose value is empty
DictSkippingEmpty(pairs) ==
    LET ks == {pairs[i].key : i \in {j \in DOMAIN pairs : pairs[j].val.kind # "empty"}}
    IN  [k \in ks |->
            pairs[CHOOSE i \in DOMAIN pairs : pairs[i].key = k].val]

\* dict(pairs): a later pair with the same key replaces an earlier one
Dict(pairs) ==
    LET ks == {pairs[i].key : i \in DOMAIN pairs}
    IN  [k \in ks |->
            pairs[MaxOf({i \in DOMAIN pairs : pairs[i].key = k})].val]

\* ----------------------------------------------------------------- values

\* a task that has not returned yet
Pending == [kind |-> "pending"]

\* pd.DataFrame() / {} : the explicit empty result of a failed task
EmptyFrame == [kind |-> "empty"]
EmptyDict == [kind |-> "empty"]

\* nothing handed to the caller yet
NoValue == [kind |-> "none"]

\* get_treasury_query_sizing's results: a list of urls, or the implicit None
\* of falling off its end
NoneLinks == [isNone |-> TRUE, size |-> 0, urls |-> << >>]
NoLinksYet == [isNone |-> FALSE, size |-> 0, urls |-> << >>]

VARIABLES
    fn,        \* the function the caller invoked
    args,      \* its arguments
    pc,        \* the synchronous call: "start", "run", "wave", "returned", "raised"
    links,     \* auctions: what get_treasury_query_sizing read (size) and returned
    keys,      \* keys[i]: the key (page, date, tenor, cusip) of task i
    st,        \* st[i]: "awaiting", "done", "raised" or "cancelled"
    branch,    \* branch[i]: how task i ended: "return", "except" or "raise"
    res,       \* res[i]: the value task i returned
    attempts,  \* attempts[i]: requests task i has issued
    orch,      \* the coroutine awaiting gather: "idle", "gathering", "returned", "raised"
    ret,       \* the value handed to the caller
    files,     \* yield-curve download: the files under raw_path/temp, by name
    fh         \* yield-curve download: fh[i], task i's handle on its csv file

vars ==
    << fn, args, pc, links, keys, st, branch, res, attempts, orch, ret,
       files, fh >>

taskVars == << keys, st, branch, res, attempts >>

fileVars == << files, fh >>

Tasks == DOMAIN st

\* -------------------------------------------------- the pagination sizer

\* math.ceil(size / MAX_TREASURY_GOV_API_CONTENT_SIZE)
NumberRequestsFloor(size) == size \div MAX_TREASURY_GOV_API_CONTENT_SIZE

NumberRequests(size) ==
    IF size % MAX_TREASURY_GOV_API_CONTENT_SIZE = 0
    THEN size \div MAX_TREASURY_GOV_API_CONTENT_SIZE
    ELSE size \div MAX_TREASURY_GOV_API_CONTENT_SIZE + 1

\* the list of page URLs, each reduced to its two query parameters
QuerySizingUrls(size) ==
    [i \in 1..NumberRequests(size) |->
        [number |-> (i - 1) + 1, size |-> MAX_TREASURY_GOV_API_CONTENT_SIZE]]

\* get_treasury_query_sizing, given the probe's response
GetTreasuryQuerySizing(probe) ==
    IF probe.ok
    THEN [isNone |-> FALSE, size |-> probe.total_count,
          urls |-> QuerySizingUrls(probe.total_count)]
    ELSE NoneLinks

\* total-count values around every page boundary up to MaxPages pages
TotalCounts ==
    {c \in {k * MAX_TREASURY_GOV_API_CONTENT_SIZE + d :
                k \in 0..MaxPages, d \in {-1, 0, 1}} :
        c >= 0 /\ c <= MaxPages * MAX_TREASURY_GOV_API_CONTENT_SIZE}

\* the probe's response: res.ok and meta["total-count"]
ProbeResponses ==
    {[ok |-> TRUE, total_count |-> c] : c \in TotalCounts}
    \cup {[ok |-> FALSE, total_count |-> 0]}

\* the "data" array the server sends for page p: n records, each named by
\* the page it came from and its place in that page
PageData(p, n) == [j \in 1..n |-> << p, j >>]


\* ------------------------------------------- fetch_historical_prices: task

\* what the savingsbonds.gov request of one date can come back as; the html
\* body is reduced to what pd.read_html makes of it: how many tables, and
\* for tables[0] whether it has a CUSIP column and the CUSIP of each row
PriceResponses ==
    {[kind |-> k, ntables |-> 0, cusipCol |-> FALSE, rows |-> << >>] :
        k \in {"timeout", "http_error", "html"}}
    \cup {[kind |-> "html", ntables |-> 1, cusipCol |-> FALSE, rows |-> << >>]}
    \cup {[kind |-> "html", ntables |-> 1, cusipCol |-> TRUE, rows |-> r] :
            r \in DistinctSeqs(CusipUniverse \cup {"X"})}

\* the cusips argument: None (the default) or a list
NoCusips == [given |-> FALSE, list |-> << >>]

CusipArgs ==
    {NoCusips} \cup {[given |-> TRUE, list |-> l] : l \in DistinctSeqs(CusipUniverse)}

\* [cusip for cusip in cusips if cusip not in df["CUSIP"].values]
MissingCusips(cusips, rows) ==
    SelectSeq(cusips, LAMBDA c : c \notin Range(rows))

\* a filter under which a requested cusip the table lacks empties the result
EmptiedByMissingCusip(cusips, rows) ==
    IF cusips = << >> THEN rows
    ELSE IF \E j \in DOMAIN cusips : cusips[j] \notin Range(rows) THEN << >>
    ELSE SelectSeq(rows, LAMBDA c : c \in Range(cusips))

\* df[df["CUSIP"].isin(cusips)] if cusips else df
FilterByCusips(cusips, rows) ==
    IF cusips # << >>
    THEN SelectSeq(rows, LAMBDA c : c \in Range(cusips))
    ELSE rows

\* an exception that leaves the coroutine: the task ends without a value
Raise == [branch |-> "raise", value |-> Pending]

\* the except clauses of a keyed task, "except httpx.HTTPStatusError" (clause
\* = "status") and "except Exception" (clause = "other"): both print and
\* return the task's key with an empty value
KeyedExceptReraise(clause, key) == Raise

KeyedExcept(clause, key) ==
    [branch |-> "except", value |-> [key |-> key, val |-> EmptyFrame]]

FetchPricesFromTreasuryDateSearch(date, cusips, response) ==
    IF response.kind = "timeout"
    THEN KeyedExcept("other", date)           \* client.post raises
    ELSE IF response.kind = "http_error"
    THEN KeyedExcept("status", date)     \* raise_for_status
    ELSE IF response.ntables = 0
    THEN KeyedExcept("other", date)           \* read_html: no tables found
    ELSE IF ~cusips.given
    THEN KeyedExcept("other", date)           \* iterating None: TypeError
    ELSE IF ~response.cusipCol
    THEN KeyedExcept("other", date)           \* df["CUSIP"]: KeyError
    ELSE [branch |-> "return",
          \* print(f"The following CUSIPs are not found ...") if missing_cusips
          printed |-> MissingCusips(cusips.list, response.rows),
          value |-> [key |-> date,
                     val |-> [kind |-> "table",
                              rows |-> FilterByCusips(cusips.list, response.rows)]]]

\* ------------------------------------------- get_cme_delivery_basket: task

\* what the quikstrike request of one tenor can come back as: how many tables
\* read_html finds, and the number of rows of tables[1] (ctd) and tables[2]
\* (otr), the header row counted
CmeResponses ==
    {[kind |-> k, ntables |-> 0, ctd |-> 0, otr |-> 0] :
        k \in {"timeout", "http_error", "html"}}
    \cup {[kind |-> "html", ntables |-> a, ctd |-> b, otr |-> c] :
            a \in {3, 4, 5}, b \in {1, 2}, c \in {1, 2}}

\* a table of n rows under pandas' default index: the row labels 0..n-1
RangeIndexTable(n) == [j \in 1..n |-> j - 1]

\* df.drop(label): the rows of t without the row labelled label
DropLabel(t, label) == SelectSeq(t, LAMBDA l : l # label)

\* the tables a tenor's page must hold: tables[3] for the tenors without
\* options, tables[3] and tables[4] for the others
TablesNeeded(tenor) == IF tenor = "3 Yr" \/ tenor = "20 Yr" THEN 4 ELSE 5

FetchCmeDeliveryBasketData(tenor, bond_info_to_dict, response) ==
    LET ctd0 == RangeIndexTable(response.ctd)
        otr0 == RangeIndexTable(response.otr)
        \* df_ctd_info.drop(df_ctd_info.index[0])
        df_ctd_info == IF ctd0 = << >> THEN << >> ELSE DropLabel(ctd0, ctd0[1])
        \* df_otr_info.drop(df_ctd_info.index[0]), the ctd table already cut
        df_otr_info ==
            IF df_ctd_info = << >> THEN << >> ELSE DropLabel(otr0, df_ctd_info[1])
    IN  IF response.kind = "timeout"
        THEN KeyedExcept("other", tenor)
        ELSE IF response.kind = "http_error"
        THEN KeyedExcept("status", tenor)
        ELSE IF response.ntables < 3
        THEN KeyedExcept("other", tenor)      \* no tables / tables[2]
        ELSE IF ctd0 = << >> \/ otr0 = << >>
        THEN KeyedExcept("other", tenor)      \* iloc[0] of an empty table
        ELSE IF df_ctd_info = << >>
        THEN KeyedExcept("other", tenor)      \* index[0] of an empty index
        ELSE IF df_ctd_info[1] \notin Range(otr0)
        THEN KeyedExcept("other", tenor)      \* drop: label not found
        ELSE IF bond_info_to_dict /\ df_otr_info = << >>
        THEN KeyedExcept("other", tenor)      \* to_dict("records")[0]
        ELSE IF response.ntables < TablesNeeded(tenor)
        THEN KeyedExcept("other", tenor)      \* tables[3] / tables[4]
        ELSE [branch |-> "return",
              value |->
                [key |-> tenor,
                 val |->
                   [kind |-> "basket",
                    ctd |-> IF bond_info_to_dict
                            THEN << df_ctd_info[1] >> ELSE df_ctd_info,
                    otr |-> IF bond_info_to_dict
                            THEN << df_otr_info[1] >> ELSE df_otr_info,
                    strike_as_yield |-> TablesNeeded(tenor) = 5,
                    deliverables |-> TablesNeeded(tenor) - 1]]]

\* -------------------------------------- schwab_treasury_cusip_search: task

\* Largest number of rows of a Schwab quote table.
MaxRows == 2

\* time_to_maturity_days / 365
DAYS_PER_YEAR == 365

EstimatedTotals == {100, 150}

\* the Maturity cell of a row: a %m/%d/%Y date, or text strptime rejects
MaturityStrings == {"06/30/2030", "N/A"}

\* datetime.strptime(s, "%m/%d/%Y") - today, in days; ok is FALSE where
\* strptime raises ValueError
MaturityMinusToday(s) ==
    IF s = "06/30/2030" THEN [ok |-> TRUE, days |-> 730]
    ELSE [ok |-> FALSE, days |-> 0]

QuoteRows == [total : EstimatedTotals, maturity : MaturityStrings]

\* what the Schwab request of one cusip can come back as: how many tables,
\* whether tables[0] has the "Unnamed: 0" column, and its rows
SchwabResponses ==
    {[kind |-> k, ntables |-> 0, unnamed0 |-> FALSE, rows |-> << >>] :
        k \in {"timeout", "http_error", "html"}}
    \cup {[kind |-> "html", ntables |-> 1, unnamed0 |-> u, rows |-> r] :
            u \in BOOLEAN, r \in SeqsUpTo(QuoteRows, MaxRows)}

\* the last of the rows with the greatest Estimated Total
IdxMaxLast(rows) ==
    MaxOf({j \in DOMAIN rows :
            \A k \in DOMAIN rows : rows[k].total <= rows[j].total})

IdxMax(rows) ==
    MinOf({j \in DOMAIN rows :
            \A k \in DOMAIN rows : rows[k].total <= rows[j].total})

\* the except clauses of the Schwab task: both print and return {}
SchwabExcept(clause) == [branch |-> "except", value |-> EmptyDict]

\* id_key is 0 where the caller passed a list (id_key = None); target_tenor
\* is set only "if id_key:", so 0 also stands for the key being absent, as
\* "" does for CUSIP
FetchFromSchwabTreasuryCusipSearch(cusip, id_key, response) ==
    IF response.kind = "timeout"
    THEN SchwabExcept("other")
    ELSE IF response.kind = "http_error"
    THEN SchwabExcept("status")
    ELSE IF response.ntables = 0
    THEN SchwabExcept("other")                \* read_html: no tables found
    ELSE IF response.rows = << >>
    THEN SchwabExcept("other")                \* idxmax of an empty column
    ELSE
        LET row == IdxMax(response.rows)
            best == response.rows[row]
            m == MaturityMinusToday(best.maturity)
        IN  IF ~m.ok
            THEN SchwabExcept("other")        \* strptime: ValueError
            ELSE [branch |-> "return",
                  value |->
                    [kind |-> "quote",
                     row |-> row,
                     total |-> best.total,
                     maturity |-> best.maturity,
                     \* best["CUSIP"] = best.pop("Unnamed: 0"): the cell the
                     \* page shows for the cusip searched for
                     CUSIP |-> IF response.unnamed0 THEN cusip ELSE "",
                     target_tenor |-> id_key,
                     time_to_maturity |-> << m.days, DAYS_PER_YEAR >>]]

\* ------------------------------- get_historical_treasury_auctions: task

\* what the request of one page can come back as: a JSON body with a "data"
\* array of n records, or something response.json() / ["data"] raises on
PageResponses ==
    {[kind |-> k, n |-> 0] : k \in {"timeout", "http_error", "malformed"}}
    \cup {[kind |-> "json", n |-> n] : n \in 0..MaxPageLen}

\* fetch has no try: whatever the request or the parse raises leaves it
Fetch(url, response) ==
    IF response.kind = "json"
    THEN [branch |-> "return",
          value |-> [kind |-> "data", data |-> PageData(url.number, response.n)]]
    ELSE Raise

\* ------------------------------------------------------------ the calls

\* the tenors a label -> cusip mapping is keyed by: 1, 2, ... years
SchwabLists ==
    {[mapping |-> FALSE, items |-> [i \in DOMAIN l |-> [label |-> 0, cusip |-> l[i]]]] :
        l \in SeqsUpTo(CusipUniverse, MaxKeys)}

SchwabMappings ==
    {[mapping |-> TRUE, items |-> [i \in DOMAIN l |-> [label |-> i, cusip |-> l[i]]]] :
        l \in SeqsUpTo(CusipUniverse, MaxKeys)}

InitCall ==
    \/ /\ fn = "auctions"
       /\ args = [none |-> TRUE]
    \/ /\ fn = "prices"
       /\ \E ds \in SeqsUpTo(DateUniverse, MaxKeys), cs \in CusipArgs :
            args = [dates |-> ds, cusips |-> cs]
    \/ /\ fn = "cme"
       /\ \E b \in BOOLEAN : args = [bond_info_to_dict |-> b]
    \/ /\ fn = "schwab"
       /\ \E a \in SchwabLists \cup SchwabMappings : args = [cusips |-> a]

Init ==
    /\ InitCall
    /\ pc = "start"
    /\ links = NoLinksYet
    /\ keys = << >>
    /\ st = << >>
    /\ branch = << >>
    /\ res = << >>
    /\ attempts = << >>
    /\ orch = "idle"
    /\ ret = NoValue
    /\ files = << >>
    /\ fh = << >>

\* links = get_treasury_query_sizing()
Probe ==
    /\ fn = "auctions"
    /\ pc = "start"
    /\ \E probe \in ProbeResponses : links' = GetTreasuryQuerySizing(probe)
    /\ pc' = "run"
    /\ UNCHANGED << fn, args, taskVars, orch, ret, fileVars >>

\* requests.get itself raises (no connection): nothing catches it
ProbeRaises ==
    /\ fn = "auctions"
    /\ pc = "start"
    /\ pc' = "raised"
    /\ UNCHANGED << fn, args, links, taskVars, orch, ret, fileVars >>

\* the keys the wave's list comprehension makes one coroutine for, in order
TaskKeys ==
    CASE fn = "auctions" -> links.urls
      [] fn = "prices" -> args.dates
      [] fn = "cme" -> EventTargets
      [] fn = "schwab" -> [i \in DOMAIN args.cusips.items |-> args.cusips.items[i].cusip]

\* asyncio.run(run_fetch(...)) up to the await of gather: one task per key,
\* each started once and run to its request
Launch ==
    /\ pc = IF fn = "auctions" THEN "run" ELSE "start"
    /\ ~links.isNone
    /\ keys' = TaskKeys
    /\ st' = [i \in DOMAIN TaskKeys |-> "awaiting"]
    /\ branch' = [i \in DOMAIN TaskKeys |-> "pending"]
    /\ res' = [i \in DOMAIN TaskKeys |-> Pending]
    /\ attempts' = [i \in DOMAIN TaskKeys |-> 1]
    /\ orch' = "gathering"
    /\ pc' = "wave"
    /\ UNCHANGED << fn, args, links, ret, fileVars >>

\* run_fetch(None): "for url in urls" raises TypeError before any task exists
LaunchOverNone ==
    /\ fn = "auctions"
    /\ pc = "run"
    /\ links.isNone
    /\ orch' = "raised"
    /\ pc' = "wave"
    /\ UNCHANGED << fn, args, links, taskVars, ret, fileVars >>

\* gather keeps one result slot per child, in the order the children were given
StoreResultByArrival(r, i, v) ==
    IF \E j \in DOMAIN r : r[j] = Pending
    THEN [r EXCEPT ![MinOf({j \in DOMAIN r : r[j] = Pending})] = v]
    ELSE r

StoreResult(r, i, v) == [r EXCEPT ![i] = v]

\* a handler that asks again after a failure instead of returning
FinishRetrying(i, out) ==
    /\ st' = [st EXCEPT ![i] = IF out.branch = "return" THEN "done" ELSE "awaiting"]
    /\ branch' = [branch EXCEPT ![i] = IF out.branch = "return" THEN "return" ELSE "pending"]
    /\ res' = [res EXCEPT ![i] = IF out.branch = "return" THEN out.value ELSE Pending]
    /\ attempts' = [attempts EXCEPT ![i] = IF out.branch = "return" THEN @ ELSE @ + 1]
    /\ UNCHANGED << fn, args, pc, links, keys, orch, ret, fileVars >>

\* task i runs from its await to its end: out is what its coroutine did
Finish(i, out) ==
    /\ st' = [st EXCEPT ![i] = IF out.branch = "raise" THEN "raised" ELSE "done"]
    /\ branch' = [branch EXCEPT ![i] = out.branch]
    /\ res' = StoreResult(res, i, out.value)
    /\ UNCHANGED << fn, args, pc, links, keys, attempts, orch, ret, fileVars >>

\* a wave in which only the first task ever gets a response or a timeout
AnsweredOnlyFirst(i) == pc = "wave" /\ st[i] = "awaiting" /\ i = 1

Resumable(i) == pc = "wave" /\ st[i] = "awaiting"

PageResponds(i) ==
    /\ fn = "auctions"
    /\ Resumable(i)
    /\ \E response \in PageResponses : Finish(i, Fetch(keys[i], response))

PriceResponds(i) ==
    /\ fn = "prices"
    /\ Resumable(i)
    /\ \E response \in PriceResponses :
        Finish(i, FetchPricesFromTreasuryDateSearch(keys[i], args.cusips, response))

CmeResponds(i) ==
    /\ fn = "cme"
    /\ Resumable(i)
    /\ \E response \in CmeResponses :
        Finish(i, FetchCmeDeliveryBasketData(keys[i], args.bond_info_to_dict, response))

SchwabResponds(i) ==
    /\ fn = "schwab"
    /\ Resumable(i)
    /\ \E response \in SchwabResponses :
        Finish(i, FetchFromSchwabTreasuryCusipSearch(
                      keys[i], args.cusips.items[i].label, response))

GatherReturns ==
    /\ orch = "gathering"
    /\ \A i \in Tasks : st[i] = "done"
    /\ orch' = "returned"
    /\ UNCHANGED << fn, args, pc, links, taskVars, ret, fileVars >>

\* ... and the first exception of a child as soon as that child raises, the
\* other children left running
GatherRaises ==
    /\ orch = "gathering"
    /\ \E i \in Tasks : st[i] = "raised"
    /\ orch' = "raised"
    /\ UNCHANGED << fn, args, pc, links, taskVars, ret, fileVars >>

\* what the function makes of the gathered list
ReturnValue ==
    CASE fn = "auctions" -> Flatten([i \in DOMAIN res |-> res[i].data])
      [] fn = "prices" -> Dict(res)
      [] fn = "cme" -> Dict(res)
      [] fn = "schwab" -> res

\* asyncio.run returns the coroutine's result; the function returns
Return ==
    /\ pc = "wave"
    /\ orch = "returned"
    /\ ret' = [kind |-> "value", v |-> ReturnValue]
    /\ pc' = "returned"
    /\ UNCHANGED << fn, args, links, taskVars, orch, fileVars >>

\* the coroutine raised: asyncio.run cancels the tasks still running, waits
\* for them, and re-raises to the caller
RaiseOut ==
    /\ pc = "wave"
    /\ orch = "raised"
    /\ st' = [i \in Tasks |-> IF st[i] = "awaiting" THEN "cancelled" ELSE st[i]]
    /\ pc' = "raised"
    /\ UNCHANGED << fn, args, links, keys, branch, res, attempts, orch, ret, fileVars >>

Next ==
    \/ Probe
    \/ ProbeRaises
    \/ Launch
    \/ LaunchOverNone
    \/ \E i \in Tasks : PageResponds(i)
    \/ \E i \in Tasks : PriceResponds(i)
    \/ \E i \in Tasks : CmeResponds(i)
    \/ \E i \in Tasks : SchwabResponds(i)
    \/ GatherReturns
    \/ GatherRaises
    \/ Return
    \/ RaiseOut

Spec == Init /\ [][Next]_vars

\* ------------------- multi_download_year_treasury_par_yield_curve_rate

\* the event loop: a launched task gets its response or its timeout (the
\* clients are built with their timeouts), gather resumes the coroutine once
\* its children have ended, and asyncio.run hands over to the caller
Fairness ==
    /\ WF_vars(Launch \/ LaunchOverNone)
    /\ WF_vars(\E i \in Tasks :
                    \/ PageResponds(i)
                    \/ PriceResponds(i)
                    \/ CmeResponds(i)
                    \/ SchwabResponds(i))
    /\ WF_vars(GatherReturns \/ GatherRaises)
    /\ WF_vars(Return \/ RaiseOut)

FairSpec == Init /\ [][Next]_vars /\ Fairness

\* ------------------------------------------------ one task, its response

\* one run of a wave's coroutine: its arguments (for the price task the
\* cusips of the enclosing call) and the response its request gets
TaskArgs ==
    {[fn |-> "fetch_prices_from_treasury_date_search",
      args |-> [date |-> d, cusips |-> cs, response |-> r]] :
        d \in DateUniverse, cs \in CusipArgs, r \in PriceResponses}
    \cup
    {[fn |-> "fetch_cme_delivery_basket_data",
      args |-> [tenor |-> t, bond_info_to_dict |-> b, response |-> r]] :
        t \in Range(EventTargets), b \in BOOLEAN, r \in CmeResponses}
    \cup
    {[fn |-> "fetch_from_schwab_treasury_cusip_search",
      args |-> [cusip |-> c, id_key |-> k, response |-> r]] :
        c \in CusipUniverse, k \in {0, 1}, r \in SchwabResponses}

InitTask ==
    /\ \E a \in TaskArgs : fn = a.fn /\ args = a.args
    /\ pc = "start"
    /\ links = NoLinksYet
    /\ keys = << >>
    /\ st = << >>
    /\ branch = << >>
    /\ res = << >>
    /\ attempts = << >>
    /\ orch = "idle"
    /\ ret = NoValue
    /\ files = << >>
    /\ fh = << >>

\* the coroutine runs from its request to its end: branch holds how it
\* ended, ret what it returned and what it printed of missing cusips
TaskEnds(out) ==
    /\ pc = "start"
    /\ branch' = << out.branch >>
    /\ ret' = [kind |-> "value", v |-> out.value,
               printed |-> IF "printed" \in DOMAIN out THEN out.printed ELSE << >>]
    /\ pc' = "returned"
    /\ UNCHANGED << fn, args, links, keys, st, res, attempts, orch, fileVars >>

PriceTaskEnds ==
    /\ fn = "fetch_prices_from_treasury_date_search"
    /\ TaskEnds(FetchPricesFromTreasuryDateSearch(
                    args.date, args.cusips, args.response))

CmeTaskEnds ==
    /\ fn = "fetch_cme_delivery_basket_data"
    /\ TaskEnds(FetchCmeDeliveryBasketData(
                    args.tenor, args.bond_info_to_dict, args.response))

SchwabTaskEnds ==
    /\ fn = "fetch_from_schwab_treasury_cusip_search"
    /\ TaskEnds(FetchFromSchwabTreasuryCusipSearch(
                    args.cusip, args.id_key, args.response))

NextTask ==
    \/ PriceTaskEnds
    \/ CmeTaskEnds
    \/ SchwabTaskEnds

SpecTask == InitTask /\ [][NextTask]_vars

\* Largest number of years a caller passes.
MaxYears == 2

\* Largest number of years explored with run_all, five tasks a year.
MaxRunAllYears == 0

\* Largest number of chunks response.content.read hands over before b"".
MaxChunks == 2

YearUniverse == {2023, 2024}

\* get_promises: the ?type= of the five urls, in the order run_all lists them
DataTypes ==
    << "daily_treasury_yield_curve", "daily_treasury_real_yield_curve",
       "daily_treasury_bill_rates", "daily_treasury_long_term_rate",
       "daily_treasury_real_long_term" >>

\* get_promises: the data type and year of each coroutine, in list order
GetPromises(years, run_all, real_par_yields) ==
    IF run_all
    THEN [t \in 1..(Len(DataTypes) * Len(years)) |->
            [type |-> DataTypes[((t - 1) % Len(DataTypes)) + 1],
             year |-> years[((t - 1) \div Len(DataTypes)) + 1]]]
    ELSE [t \in 1..Len(years) |->
            [type |-> IF ~real_par_yields THEN DataTypes[1] ELSE DataTypes[2],
             year |-> years[t]]]

\* full_file_path: raw_path/temp/<type>.csv, the year not in it; and the
\* <type>.xlsx beside raw_path/temp that download writes
CsvPath(key) == << key.type, "csv" >>
XlsxPath(key) == << key.type, "xlsx" >>

AllPaths == {<< DataTypes[t], e >> : t \in DOMAIN DataTypes, e \in {"csv", "xlsx"}}

Absent == [exists |-> FALSE, bytes |-> << >>]

ClosedHandle == [open |-> FALSE, pos |-> 0, buf |-> << >>, n |-> 0]

\* the k-th chunk of task i's response body; chunk 1 carries the csv header
Chunk(i, k) == << i, k >>

\* the bytes a write past the end of a truncated file leaves in between
Hole == << 0, 0 >>

\* the file's bytes after data is written at offset pos
WriteAt(bytes, pos, data) ==
    LET n == IF Len(bytes) > pos + Len(data) THEN Len(bytes) ELSE pos + Len(data)
    IN  [x \in 1..n |->
            IF x > pos /\ x <= pos + Len(data) THEN data[x - pos]
            ELSE IF x <= Len(bytes) THEN bytes[x]
            ELSE Hole]

\* the handle's buffer written out at the handle's offset
Flushed(fs, path, h) ==
    IF h.buf = << >> THEN fs
    ELSE [fs EXCEPT ![path] =
            [exists |-> TRUE, bytes |-> WriteAt(fs[path].bytes, h.pos, h.buf)]]

\* convert_csv_to_excel(full_file_path), run when the body has been read and
\* the file closed: the files it leaves, and the table it returns unless it
\* raises.  os.path.join builds the path with os.sep, so on posix
\* copy.split("\\") has no "temp" element and remove("temp") raises; on nt
\* os.remove raises while another handle on the file is open.
ConvertCsvToExcel(fs, key, platform, download, openElsewhere) ==
    LET csv == fs[CsvPath(key)]
        df_temp == [kind |-> "table", bytes |-> csv.bytes]
        written == IF download
                   THEN [fs EXCEPT ![XlsxPath(key)] =
                            [exists |-> TRUE, bytes |-> csv.bytes]]
                   ELSE fs
    IN  IF platform = "posix"
        THEN [files |-> fs, raises |-> TRUE, df |-> EmptyFrame]      \* list.remove
        ELSE IF ~csv.exists \/ csv.bytes = << >>
        THEN [files |-> fs, raises |-> TRUE, df |-> EmptyFrame]      \* read_csv
        ELSE IF csv.bytes[1][2] # 1
        THEN [files |-> fs, raises |-> TRUE, df |-> EmptyFrame]      \* df_temp["Date"]
        ELSE IF openElsewhere
        THEN [files |-> written, raises |-> TRUE, df |-> EmptyFrame] \* os.remove
        ELSE [files |-> [written EXCEPT ![CsvPath(key)] = Absent],
              raises |-> FALSE, df |-> df_temp]

YieldArgs ==
    {[years |-> ys, run_all |-> ra, real_par_yields |-> rp, download |-> dl,
      platform |-> pf] :
        ys \in SeqsUpTo(YearUniverse, MaxYears), ra \in BOOLEAN, rp \in BOOLEAN,
        dl \in BOOLEAN, pf \in {"nt", "posix"}}

InitYield ==
    /\ fn = "yield"
    /\ args \in {a \in YieldArgs : a.run_all => Len(a.years) <= MaxRunAllYears}
    /\ pc = "start"
    /\ links = NoLinksYet
    /\ keys = << >>
    /\ st = << >>
    /\ branch = << >>
    /\ res = << >>
    /\ attempts = << >>
    /\ orch = "idle"
    /\ ret = NoValue
    /\ files = [p \in AllPaths |-> Absent]
    /\ fh = << >>

\* os.mkdir(temp); asyncio.run(run_fetch_all()) up to the await of gather
LaunchYield ==
    /\ fn = "yield"
    /\ pc = "start"
    /\ LET ks == GetPromises(args.years, args.run_all, args.real_par_yields)
       IN  /\ keys' = ks
           /\ st' = [i \in DOMAIN ks |-> "awaiting"]
           /\ branch' = [i \in DOMAIN ks |-> "pending"]
           /\ res' = [i \in DOMAIN ks |-> Pending]
           /\ attempts' = [i \in DOMAIN ks |-> 1]
           /\ fh' = [i \in DOMAIN ks |-> ClosedHandle]
    /\ orch' = "gathering"
    /\ pc' = "wave"
    /\ UNCHANGED << fn, args, links, ret, files >>

\* fetch_from_treasurygov's except clause: {treasurygov_data_type: pd.DataFrame()}
YieldExcept(i) ==
    /\ st' = [st EXCEPT ![i] = "done"]
    /\ branch' = [branch EXCEPT ![i] = "except"]
    /\ res' = [res EXCEPT ![i] = [key |-> keys[i].type, val |-> EmptyFrame]]

\* the response's status line arrives: 200 opens the csv file for writing,
\* which creates it or cuts it to nothing
YieldRespondsOk(i) ==
    /\ fn = "yield"
    /\ pc = "wave"
    /\ st[i] = "awaiting"
    /\ files' = [files EXCEPT ![CsvPath(keys[i])] = [exists |-> TRUE, bytes |-> << >>]]
    /\ fh' = [fh EXCEPT ![i] = [open |-> TRUE, pos |-> 0, buf |-> << >>, n |-> 0]]
    /\ st' = [st EXCEPT ![i] = "reading"]
    /\ UNCHANGED << fn, args, pc, links, keys, branch, res, attempts, orch, ret >>

\* any other status, or the request raising: "Bad Status" / the exception
YieldRespondsBad(i) ==
    /\ fn = "yield"
    /\ pc = "wave"
    /\ st[i] = "awaiting"
    /\ YieldExcept(i)
    /\ UNCHANGED << fn, args, pc, links, keys, attempts, orch, ret, fileVars >>

\* one more chunk read and handed to f.write, which keeps it in the handle's
\* buffer or writes the buffer out
YieldReadsChunk(i) ==
    /\ fn = "yield"
    /\ pc = "wave"
    /\ st[i] = "reading"
    /\ fh[i].n < MaxChunks
    /\ \E flush \in BOOLEAN :
        LET h == [fh[i] EXCEPT !.buf = @ \o << Chunk(i, fh[i].n + 1) >>,
                               !.n = @ + 1]
        IN  IF flush
            THEN /\ files' = Flushed(files, CsvPath(keys[i]), h)
                 /\ fh' = [fh EXCEPT ![i] =
                            [h EXCEPT !.pos = @ + Len(h.buf), !.buf = << >>]]
            ELSE /\ files' = files
                 /\ fh' = [fh EXCEPT ![i] = h]
    /\ UNCHANGED << fn, args, pc, links, taskVars, orch, ret >>

\* the read raises: the with block closes the file, the except clause returns
YieldReadFails(i) ==
    /\ fn = "yield"
    /\ pc = "wave"
    /\ st[i] = "reading"
    /\ files' = Flushed(files, CsvPath(keys[i]), fh[i])
    /\ fh' = [fh EXCEPT ![i] = ClosedHandle]
    /\ YieldExcept(i)
    /\ UNCHANGED << fn, args, pc, links, keys, attempts, orch, ret >>

\* b"" read: the file is closed and converted, the table returned
YieldReadsEnd(i) ==
    /\ fn = "yield"
    /\ pc = "wave"
    /\ st[i] = "reading"
    /\ LET closed == Flushed(files, CsvPath(keys[i]), fh[i])
           openElsewhere ==
               \E j \in Tasks \ {i} :
                   fh[j].open /\ CsvPath(keys[j]) = CsvPath(keys[i])
           c == ConvertCsvToExcel(closed, keys[i], args.platform, args.download,
                                  openElsewhere)
       IN  /\ files' = c.files
           /\ st' = [st EXCEPT ![i] = "done"]
           /\ branch' = [branch EXCEPT ![i] = IF c.raises THEN "except" ELSE "return"]
           /\ res' = [res EXCEPT ![i] = [key |-> keys[i].type, val |-> c.df]]
    /\ fh' = [fh EXCEPT ![i] = ClosedHandle]
    /\ UNCHANGED << fn, args, pc, links, keys, attempts, orch, ret >>

\* the tables of the gathered list that belong to data type t, in list
\* order, the empty ones left out
RECURSIVE TablesOfType(_, _)
TablesOfType(rs, t) ==
    IF rs = << >> THEN << >>
    ELSE (IF Head(rs).key = t /\ Head(rs).val.kind = "table"
          THEN << Head(rs).val.bytes >> ELSE << >>) \o TablesOfType(Tail(rs), t)

\* the value after the wave: pd.concat of the tables in list order, or with
\* run_all one concatenation per data type that has a non-empty table
YieldReturnValue ==
    IF ~args.run_all
    THEN Flatten([i \in DOMAIN res |->
                    IF res[i].val.kind = "table" THEN res[i].val.bytes ELSE << >>])
    ELSE LET types == {res[i].key : i \in {j \in DOMAIN res : res[j].val.kind = "table"}}
         IN  [t \in types |-> Flatten(TablesOfType(res, t))]

\* shutil.rmtree(temp), then the concatenation
ReturnYield ==
    /\ fn = "yield"
    /\ pc = "wave"
    /\ orch = "returned"
    /\ args.run_all \/ Len(res) > 0
    /\ files' = [p \in AllPaths |-> IF p[2] = "csv" THEN Absent ELSE files[p]]
    /\ ret' = [kind |-> "value", v |-> YieldReturnValue]
    /\ pc' = "returned"
    /\ UNCHANGED << fn, args, links, taskVars, orch, fh >>

\* no years and not run_all: pd.concat([]) raises ValueError
ReturnYieldRaises ==
    /\ fn = "yield"
    /\ pc = "wave"
    /\ orch = "returned"
    /\ ~args.run_all /\ Len(res) = 0
    /\ files' = [p \in AllPaths |-> IF p[2] = "csv" THEN Absent ELSE files[p]]
    /\ pc' = "raised"
    /\ UNCHANGED << fn, args, links, taskVars, orch, ret, fh >>

NextYield ==
    \/ LaunchYield
    \/ \E i \in Tasks : YieldRespondsOk(i)
    \/ \E i \in Tasks : YieldRespondsBad(i)
    \/ \E i \in Tasks : YieldReadsChunk(i)
    \/ \E i \in Tasks : YieldReadFails(i)
    \/ \E i \in Tasks : YieldReadsEnd(i)
    \/ GatherReturns
    \/ ReturnYield
    \/ ReturnYieldRaises

SpecYield == InitYield /\ [][NextYield]_vars

\* ---------------- get_last_n_off_the_run_cusips, get_on_the_run_cusips

\* Largest number of auction records in the fetched history.
MaxAuctions == 3

\* Largest n a caller passes to get_last_n_off_the_run_cusips.
MaxN == 1

\* the security types the two resolvers filter out
ExcludedSecurityTypes ==
    {"TIPS", "TIPS Note", "TIPS Bond", "FRN", "FRN Note", "FRN Bond", "CMB"}
OnTheRunExcludedTypes == {"TIPS", "FRN", "CMB"}

\* mapping: term -> numeric tenor, in hundredths of a year (0.25 is 25)
TenorMapping ==
    ("17-Week" :> 25) @@ ("26-Week" :> 50) @@ ("52-Week" :> 100) @@
    ("2-Year" :> 200) @@ ("3-Year" :> 300) @@ ("5-Year" :> 500) @@
    ("7-Year" :> 700) @@ ("10-Year" :> 1000) @@ ("20-Year" :> 2000) @@
    ("30-Year" :> 3000)

\* the terms in the order python compares strings, the order in which
\* groupby lists its groups and sort_values orders the term column
SortedTerms ==
    << "10-Year", "17-Week", "2-Year", "20-Year", "26-Week", "3-Year",
       "30-Year", "4-Week", "5-Year", "52-Week", "7-Year" >>

TermRank(t) == CHOOSE i \in DOMAIN SortedTerms : SortedTerms[i] = t

\* Series.replace(mapping): a mapped term becomes its tenor, any other term
\* stays the string it was
TargetTenor(term) ==
    IF term \in DOMAIN TenorMapping
    THEN [kind |-> "tenor", tenor |-> TenorMapping[term]]
    ELSE [kind |-> "term", term |-> term]

\* pd.Timestamp.now(), in days
NowUniverse == {10}

AuctionRecord(c, ty, ot, st_, ad, id) ==
    [cusip |-> c, security_type |-> ty, original_security_term |-> ot,
     security_term_week_year |-> st_, auction_date |-> ad, issue_date |-> id]

\* the auction records a history is drawn from: three 52-Week bills issued
\* on three days, a fourth tying with the latest, a reopened bill, a note,
\* a note auctioned after now, a bill of a term the mapping lacks
EligibleUniverse ==
    { AuctionRecord("B1", "Bill", "52-Week", "52-Week", 1, 1),
      AuctionRecord("B2", "Bill", "52-Week", "52-Week", 2, 2),
      AuctionRecord("B3", "Bill", "52-Week", "52-Week", 10, 3),
      AuctionRecord("T3", "Bill", "52-Week", "52-Week", 3, 3),
      AuctionRecord("BR", "Bill", "52-Week", "26-Week", 4, 4),
      AuctionRecord("N2", "Note", "2-Year", "2-Year", 2, 2),
      AuctionRecord("NF", "Note", "2-Year", "2-Year", 11, 4),
      AuctionRecord("U1", "Bill", "4-Week", "4-Week", 1, 1) }

\* a record of an excluded type, the most recently issued of its term
ExcludedUniverse ==
    { AuctionRecord("X4", ty, "52-Week", "52-Week", 4, 4) :
        ty \in ExcludedSecurityTypes }

\* histories: distinct eligible-type records in any order, with or without
\* one record of an excluded type fetched ahead of them
AuctionHistories ==
    LET distinct(h) == \A i, j \in DOMAIN h : i # j => h[i] # h[j]
    IN  {h \in SeqsUpTo(EligibleUniverse, MaxAuctions) : distinct(h)}
        \cup {<< x >> \o h :
                x \in ExcludedUniverse,
                h \in {g \in SeqsUpTo(EligibleUniverse, MaxAuctions - 2) : distinct(g)}}

\* pd.DataFrame(json): one row a record, labelled 0, 1, ... in input order
DataFrame(json) == [i \in DOMAIN json |-> [label |-> i - 1, rec |-> json[i]]]

\* the rows of df at the positions idx, in order
RECURSIVE Take(_, _)
Take(df, idx) ==
    IF idx = {} THEN << >>
    ELSE LET i == MinOf(idx) IN << df[i] >> \o Take(df, idx \ {i})

\* no type filter
KeepExcludedTypes(df, excluded) == df

\* df[df["security_type"] != ... & ...]
DropExcludedTypes(df, excluded) ==
    Take(df, {i \in DOMAIN df : df[i].rec.security_type \notin excluded})

\* no reopened-bill rule
KeepReopenedBills(df) == df

\* df.drop(df[(type == "Bill") & (original term != term)].index)
DropReopenedBills(df) ==
    LET dropped == {df[i].label : i \in {j \in DOMAIN df :
                        /\ df[j].rec.security_type = "Bill"
                        /\ df[j].rec.original_security_term
                            # df[j].rec.security_term_week_year}}
    IN  Take(df, {i \in DOMAIN df : df[i].label \notin dropped})

\* no restriction to the auctions held by now
AuctionedAnyTime(df, current_date) == df

\* auctions_df[auctions_df["auction_date"] <= current_date]
AuctionedByNow(df, current_date) ==
    Take(df, {i \in DOMAIN df : df[i].rec.auction_date <= current_date})

\* sort_values("issue_date", ascending=False) with the default quicksort,
\* which is not stable: rows of one issue_date come out in the order the
\* sort's implementation gives them on this input, here input order
\* ("stable") or its reverse ("reversed")
IssueDateBefore(a, b, kind) ==
    \/ a.rec.issue_date > b.rec.issue_date
    \/ /\ a.rec.issue_date = b.rec.issue_date
       /\ IF kind = "stable" THEN a.label < b.label ELSE a.label > b.label

RECURSIVE SortRows(_, _)
SortRows(rows, kind) ==
    IF rows = {} THEN << >>
    ELSE LET m == CHOOSE x \in rows :
                    \A y \in rows \ {x} : IssueDateBefore(x, y, kind)
         IN  << m >> \o SortRows(rows \ {m}, kind)

SortValues(df, kind) == SortRows(Range(df), kind)

\* groupby("original_security_term"): the group keys, sorted
GroupKeys(df) ==
    LET present(t) == \E i \in DOMAIN df : df[i].rec.original_security_term = t
    IN  SelectSeq(SortedTerms, present)

\* one group's rows, in the frame's order
Group(df, t) ==
    Take(df, {i \in DOMAIN df : df[i].rec.original_security_term = t})

\* the last row of every group in place of the first
GroupByLast(df) ==
    LET ks == GroupKeys(df)
    IN  [g \in DOMAIN ks |->
            [label |-> g - 1,
             rec |-> Group(df, ks[g])[Len(Group(df, ks[g]))].rec]]

\* groupby(...).first().reset_index(): the first row of every group, the
\* groups in key order, relabelled 0, 1, ...
GroupByFirst(df) ==
    LET ks == GroupKeys(df)
    IN  [g \in DOMAIN ks |-> [label |-> g - 1, rec |-> Head(Group(df, ks[g])).rec]]

\* the rows at positions 0..n of their group
GroupByNthFromZero(df, n) ==
    LET pos(i) == Cardinality({j \in 1..(i - 1) :
                    df[j].rec.original_security_term
                        = df[i].rec.original_security_term})
    IN  Take(df, {i \in DOMAIN df : pos(i) \in 0..n})

\* groupby(...).nth(list(range(1, n + 1))): the rows at positions 1..n of
\* their group, positions counted from 0
GroupByNth(df, n) ==
    LET pos(i) == Cardinality({j \in 1..(i - 1) :
                    df[j].rec.original_security_term
                        = df[i].rec.original_security_term})
    IN  Take(df, {i \in DOMAIN df : pos(i) \in 1..n})

\* the columns kept of a row, with the target_tenor column added; the
\* frame's other columns are left out
OutRecord(rec) ==
    [original_security_term |-> rec.original_security_term,
     security_type |-> rec.security_type,
     cusip |-> rec.cusip,
     auction_date |-> rec.auction_date,
     issue_date |-> rec.issue_date,
     target_tenor |-> TargetTenor(rec.original_security_term)]

\* pd.concat([a, b], ignore_index=True)
Concat(a, b) ==
    LET c == a \o b IN [i \in DOMAIN c |-> [label |-> i - 1, rec |-> c[i].rec]]

\* sort_values(by=["original_security_term", "issue_date"],
\* ascending=[True, False]): a sort on two keys, which keeps the rows that
\* agree on both in the order they had
CombinedBefore(a, b) ==
    LET ta == TermRank(a.rec.original_security_term)
        tb == TermRank(b.rec.original_security_term)
    IN  \/ ta < tb
        \/ ta = tb /\ a.rec.issue_date > b.rec.issue_date
        \/ ta = tb /\ a.rec.issue_date = b.rec.issue_date /\ a.label < b.label

RECURSIVE SortCombined(_)
SortCombined(rows) ==
    IF rows = {} THEN << >>
    ELSE LET m == CHOOSE x \in rows : \A y \in rows \ {x} : CombinedBefore(x, y)
         IN  << m >> \o SortCombined(rows \ {m})

\* a layer's records as the group loop appended them
UnsortedSublist(sublist) == sublist

\* sorted(sublist, key=lambda d: d["target_tenor"])
RECURSIVE SortedSublist(_)
SortedSublist(sublist) ==
    IF sublist = << >> THEN << >>
    ELSE LET i == CHOOSE x \in DOMAIN sublist :
                    \A y \in DOMAIN sublist \ {x} :
                        \/ sublist[x].target_tenor.tenor < sublist[y].target_tenor.tenor
                        \/ /\ sublist[x].target_tenor.tenor = sublist[y].target_tenor.tenor
                           /\ x < y
             rest == [j \in 1..(Len(sublist) - 1) |->
                        IF j < i THEN sublist[j] ELSE sublist[j + 1]]
         IN  << sublist[i] >> \o SortedSublist(rest)

\* {d["target_tenor"]: d["cusip"] for d in sublist}
TenorToCusip(sublist) ==
    Dict([i \in DOMAIN sublist |->
            [key |-> sublist[i].target_tenor, val |-> sublist[i].cusip]])

\* the rows the off-the-run frame keeps: those whose label is not a label of
\* on_the_run, whose labels are 0, 1, ... after its reset_index
NotInOnTheRunIndex(auctions_df, on_the_run) ==
    Take(auctions_df,
         {i \in DOMAIN auctions_df :
            auctions_df[i].label \notin {on_the_run[g].label : g \in DOMAIN on_the_run}})

\* the frame the layers are cut from: filtered, sorted, on-the-run and
\* off-the-run rows combined, the unmapped terms masked out
MappedAndFiltered(auctions_json, n, current_date, kind) ==
    LET auctions_df ==
            SortValues(
                AuctionedByNow(
                    DropReopenedBills(
                        DropExcludedTypes(DataFrame(auctions_json),
                                          ExcludedSecurityTypes)),
                    current_date),
                kind)
        on_the_run == GroupByFirst(auctions_df)
        off_the_run == NotInOnTheRunIndex(auctions_df, on_the_run)
        off_the_run_result == GroupByNth(off_the_run, n)
        combined_result == SortCombined(Range(Concat(on_the_run, off_the_run_result)))
    IN  Take(combined_result,
             {i \in DOMAIN combined_result :
                combined_result[i].rec.original_security_term \in DOMAIN TenorMapping})

\* the loop over range(max_size): layer i holds row i of every group that
\* has one, sorted by tenor
Wrapper(mapped_and_filtered_df, filtered) ==
    LET ks == GroupKeys(mapped_and_filtered_df)
        size(g) == Len(Group(mapped_and_filtered_df, ks[g]))
        max_size == MaxOf({size(g) : g \in DOMAIN ks})
        sublist(i) ==
            LET gs == SelectSeq([g \in DOMAIN ks |-> g], LAMBDA g : i < size(g))
            IN  [x \in DOMAIN gs |->
                    OutRecord(Group(mapped_and_filtered_df, ks[gs[x]])[i + 1].rec)]
    IN  [l \in 1..max_size |->
            IF filtered THEN TenorToCusip(SortedSublist(sublist(l - 1)))
            ELSE SortedSublist(sublist(l - 1))]

\* get_last_n_off_the_run_cusips(n, filtered) over the fetched history.  An
\* empty history has no security_type column, and a history that leaves no
\* mapped row makes max_size NaN: both raise.
GetLastNOffTheRunCusips(auctions_json, n, filtered, current_date, kind) ==
    LET mapped == MappedAndFiltered(auctions_json, n, current_date, kind)
    IN  IF auctions_json = << >> \/ mapped = << >>
        THEN Raise
        ELSE [branch |-> "return",
              value |-> [kind |-> "layers", layers |-> Wrapper(mapped, filtered)]]

\* what get_on_the_run_cusips returns when res.ok is false
None == [kind |-> "None"]

\* get_on_the_run_cusips(return_list, return_dict); json_data's fields type,
\* originalSecurityTerm, securityTerm, auctionDate and issueDate are read
\* here under the names the auction history gives them
GetOnTheRunCusips(ok, json_data, return_list, return_dict, kind) ==
    LET df == SortValues(
                DropReopenedBills(
                    DropExcludedTypes(DataFrame(json_data), OnTheRunExcludedTypes)),
                kind)
        result == GroupByFirst(df)
        final_result == [g \in DOMAIN result |-> OutRecord(result[g].rec)]
    IN  IF ~ok THEN [branch |-> "return", value |-> None]
        ELSE IF json_data = << >> THEN Raise
        ELSE IF return_list
        THEN [branch |-> "return",
              value |-> [kind |-> "list",
                         cusips |-> [g \in DOMAIN final_result |-> final_result[g].cusip]]]
        ELSE IF return_dict
        THEN [branch |-> "return",
              value |-> [kind |-> "dict",
                         dict |-> Dict([g \in DOMAIN final_result |->
                                    [key |-> final_result[g].target_tenor,
                                     val |-> final_result[g].cusip]])]]
        ELSE [branch |-> "return",
              value |-> [kind |-> "frame", rows |-> final_result]]

\* the calls made on one history at one current time
Runs == {1, 2}

\* two rows of one term issued on the same day
HasTie(h) ==
    \E i, j \in DOMAIN h :
        /\ i # j
        /\ h[i].original_security_term = h[j].original_security_term
        /\ h[i].issue_date = h[j].issue_date

OtherKind(kind) == IF kind = "stable" THEN "reversed" ELSE "stable"

SortKinds(h) == IF HasTie(h) THEN {"stable", "reversed"} ELSE {"stable"}

OffTheRunArgs ==
    {[auctions_json |-> h, n |-> n, filtered |-> f, current_date |-> now,
      kind |-> k] :
        h \in AuctionHistories, n \in 0..MaxN, f \in BOOLEAN, now \in NowUniverse,
        k \in {"stable", "reversed"}}

OnTheRunArgs ==
    {[ok |-> ok, json_data |-> h, return_list |-> rl, return_dict |-> rd,
      kind |-> k] :
        ok \in BOOLEAN, h \in AuctionHistories, rl \in BOOLEAN, rd \in BOOLEAN,
        k \in {"stable", "reversed"}}

InitResolver ==
    /\ \/ /\ fn = "off_the_run"
          /\ args \in {a \in OffTheRunArgs : a.kind \in SortKinds(a.auctions_json)}
       \/ /\ fn = "on_the_run"
          /\ args \in {a \in OnTheRunArgs :
                        /\ a.kind \in SortKinds(a.json_data)
                        /\ ~a.ok => (a.json_data = << >> /\ ~a.return_list /\ ~a.return_dict)}
    /\ pc = "start"
    /\ links = NoLinksYet
    /\ keys = << >>
    /\ st = << >>
    /\ branch = << >>
    /\ res = << >>
    /\ attempts = << >>
    /\ orch = "idle"
    /\ ret = NoValue
    /\ files = << >>
    /\ fh = << >>

\* the order the sort leaves tied rows in: the same input gives the same
\* order on every run
SortKindPerRun(run) == IF run = 1 THEN args.kind ELSE OtherKind(args.kind)

SortKind(run) == args.kind

\* what this call of the resolver computes
Resolved ==
    IF fn = "off_the_run"
    THEN GetLastNOffTheRunCusips(args.auctions_json, args.n, args.filtered,
                                 args.current_date, SortKind(Len(res) + 1))
    ELSE GetOnTheRunCusips(args.ok, args.json_data, args.return_list,
                           args.return_dict, SortKind(Len(res) + 1))

Callable == pc \in {"start", "returned"} /\ Len(res) + 1 \in Runs

\* a call of get_last_n_off_the_run_cusips that returns its layers
OffTheRunReturns ==
    /\ fn = "off_the_run"
    /\ Callable
    /\ LET r == Resolved
       IN  /\ r.branch = "return"
           /\ ret' = [kind |-> "value", v |-> r.value]
           /\ res' = Append(res, r.value)
    /\ pc' = "returned"
    /\ UNCHANGED << fn, args, links, keys, st, branch, attempts, orch, fileVars >>

\* a call of get_last_n_off_the_run_cusips that raises
OffTheRunRaises ==
    /\ fn = "off_the_run"
    /\ Callable
    /\ Resolved.branch = "raise"
    /\ pc' = "raised"
    /\ UNCHANGED << fn, args, links, taskVars, orch, ret, fileVars >>

\* a call of get_on_the_run_cusips that returns
OnTheRunReturns ==
    /\ fn = "on_the_run"
    /\ Callable
    /\ LET r == Resolved
       IN  /\ r.branch = "return"
           /\ ret' = [kind |-> "value", v |-> r.value]
           /\ res' = Append(res, r.value)
    /\ pc' = "returned"
    /\ UNCHANGED << fn, args, links, keys, st, branch, attempts, orch, fileVars >>

\* a call of get_on_the_run_cusips that raises
OnTheRunRaises ==
    /\ fn = "on_the_run"
    /\ Callable
    /\ Resolved.branch = "raise"
    /\ pc' = "raised"
    /\ UNCHANGED << fn, args, links, taskVars, orch, ret, fileVars >>

NextResolver ==
    \/ OffTheRunReturns
    \/ OffTheRunRaises
    \/ OnTheRunReturns
    \/ OnTheRunRaises

SpecResolver == InitResolver /\ [][NextResolver]_vars

\* ------------------------------------------------------------- properties

KeyedFetchers == {"prices", "cme", "schwab"}

\* the empty result a failed task of a keyed fetcher returns in its own slot:
\* (date, pd.DataFrame()), (tenor, {}), and {} for the Schwab search
OwnEmpty(i) ==
    IF fn = "schwab" THEN EmptyDict ELSE [key |-> keys[i], val |-> EmptyFrame]

\* the value of task i is a result for task i's own key
OwnResult(i) ==
    IF fn = "schwab"
    THEN res[i].kind \in {"quote", "empty"}
    ELSE res[i].key = keys[i] /\ res[i].val.kind \in {"table", "basket", "empty"}

\* the step in which a task of a keyed fetcher ends changes no sibling
SiblingsUntouched ==
    fn \in KeyedFetchers =>
        \A i \in Tasks :
            (st[i] = "awaiting" /\ st'[i] # "awaiting") =>
                \A j \in Tasks \ {i} :
                    /\ st'[j] = st[j]
                    /\ res'[j] = res[j]
                    /\ branch'[j] = branch[j]

\* C1: in the waves of fetch_historical_prices, get_cme_delivery_basket and
\* schwab_treasury_cusip_search a task that fails (HTTP error status, parse
\* exception, timeout) ends with its own empty result; no task ever raises
\* or is cancelled, the wave and the call never raise, the step in which one
\* task finishes leaves every sibling as it was, and when the call returns
\* every task holds its own populated-or-empty result.
C1_FailureIsolated ==
    /\ [](fn \in KeyedFetchers =>
            /\ pc # "raised"
            /\ orch # "raised"
            /\ \A i \in Tasks :
                /\ st[i] \in {"awaiting", "done"}
                /\ branch[i] = "except" => st[i] = "done" /\ res[i] = OwnEmpty(i)
                /\ st[i] = "done" => OwnResult(i)
            /\ pc = "returned" => \A i \in Tasks : st[i] = "done")
    /\ [][SiblingsUntouched]_vars

\* a finished wave of a keyed fetcher in which one task failed and a sibling
\* returned a populated result
C1_Witness ==
    /\ fn = "prices"
    /\ pc = "returned"
    /\ \E i, j \in Tasks :
        /\ branch[i] = "except"
        /\ branch[j] = "return"
        /\ res[j].val.kind = "table"

\* the requested keys are pairwise different
PairwiseDistinct(s) == \A i, j \in DOMAIN s : i # j => s[i] # s[j]

\* C2: fetch_historical_prices over k pairwise distinct dates, and
\* get_cme_delivery_basket over its 8 tenor labels, return a mapping with
\* exactly k keys, the requested ones, each mapped to a populated or an
\* explicitly empty result, whatever subset of the tasks failed.
C2_ExactlyTheRequestedKeys ==
    /\ (fn = "prices" /\ pc = "returned" /\ PairwiseDistinct(args.dates)) =>
        /\ DOMAIN ret.v = Range(args.dates)
        /\ Cardinality(DOMAIN ret.v) = Len(args.dates)
        /\ \A d \in DOMAIN ret.v : ret.v[d].kind \in {"table", "empty"}
    /\ (fn = "cme" /\ pc = "returned") =>
        /\ DOMAIN ret.v = Range(EventTargets)
        /\ Cardinality(DOMAIN ret.v) = 8
        /\ \A t \in DOMAIN ret.v : ret.v[t].kind \in {"basket", "empty"}

\* both fetchers' mappings with a failed task among the requested keys
C2_Witness ==
    /\ pc = "returned"
    /\ \/ fn = "cme"
       \/ fn = "prices" /\ Len(args.dates) = 2 /\ PairwiseDistinct(args.dates)
    /\ \E i, j \in Tasks : branch[i] = "except" /\ branch[j] = "return"

\* the records of the pages that answered, in page order
SuccessfulPages ==
    Flatten([i \in DOMAIN res |->
                IF st[i] = "done" THEN res[i].data ELSE << >>])

\* C3: in get_historical_treasury_auctions, when the probe succeeded and
\* some page requests fail, the call still returns normally, the failed pages
\* contributing no records and every successful page's records present.
C3_FailedPagesTolerated ==
    (fn = "auctions" /\ \E i \in Tasks : st[i] = "raised") =>
        /\ orch # "raised"
        /\ pc # "raised"
        /\ pc = "returned" => ret.v = SuccessfulPages

\* C4: in get_historical_treasury_auctions, when the probe answers non-2xx,
\* no page request is issued and the call returns an empty record set; it
\* does not raise.
C4_ProbeFailureReturnsEmpty ==
    (fn = "auctions" /\ links.isNone) =>
        /\ links.urls = << >>
        /\ Tasks = {}
        /\ orch # "raised"
        /\ pc # "raised"
        /\ pc = "returned" => ret.v = << >>

\* C5: for every total_count >= 0 the sizer returns n = ceil(total_count /
\* 10000) urls, numbered 1, 2, ..., n in that order, each of page size 10000,
\* with 10000 * (n - 1) < total_count <= 10000 * n; page p holding the records
\* (p - 1) * size + 1 .. min(p * size, total_count), the pages cover
\* 1..total_count without a gap and without a record on two pages.
C5_PaginationComplete ==
    (fn = "auctions" /\ pc # "start" /\ ~links.isNone) =>
        LET urls == links.urls
            n == Len(urls)
            total == links.size
            First(u) == (u.number - 1) * u.size + 1
            Last(u) == IF u.number * u.size < total THEN u.number * u.size ELSE total
        IN  /\ \A i \in 1..n : urls[i].number = i /\ urls[i].size = 10000
            /\ 10000 * (n - 1) < total
            /\ total <= 10000 * n
            /\ n = 0 => total = 0
            /\ n > 0 => First(urls[1]) = 1 /\ Last(urls[n]) = total
            /\ \A i \in 1..(n - 1) : First(urls[i + 1]) = Last(urls[i]) + 1
            /\ \A i \in 1..n : First(urls[i]) <= Last(urls[i])

\* a total-count one past a page boundary: two urls
C5_Witness ==
    /\ fn = "auctions"
    /\ pc = "run"
    /\ links.size = 10001
    /\ Len(links.urls) = 2

\* C6: no orchestration (auction pages, price dates, CME tenors, Schwab
\* cusips) has returned or raised, to asyncio.run or to the function's
\* caller, while a task of its wave is still pending.
C6_Barrier ==
    (orch \in {"returned", "raised"} \/ pc \in {"returned", "raised"}) =>
        \A i \in Tasks : st[i] # "awaiting"

\* what the caller asked a keyed fetcher for, one entry per unit of work
Requested ==
    CASE fn = "prices" -> args.dates
      [] fn = "cme" -> EventTargets
      [] fn = "schwab" -> [i \in DOMAIN args.cusips.items |-> args.cusips.items[i].cusip]
      [] OTHER -> << >>

\* once the wave is launched no task is added, and a task that has ended
\* keeps its state, its result and its request count
NeverRunAgain ==
    /\ (pc # "start" /\ pc # "run") => keys' = keys
    /\ \A i \in Tasks :
        st[i] # "awaiting" =>
            /\ st'[i] = st[i]
            /\ res'[i] = res[i]
            /\ branch'[i] = branch[i]
            /\ attempts'[i] = attempts[i]

\* C7: within one call each fetch task is created once per requested key,
\* issues at most one request, ends populated or explicitly empty, and once
\* it has ended (failed or not) is never run again: its state, result and
\* request count do not change any more, and no task is created later.
C7_ExactlyOnce ==
    /\ [](/\ \A i \in Tasks : attempts[i] <= 1
          /\ (fn \in KeyedFetchers /\ pc # "start") =>
                /\ keys = Requested
                /\ \A i \in Tasks :
                    /\ st[i] \in {"awaiting", "done"}
                    /\ st[i] = "done" => branch[i] \in {"return", "except"}
                    /\ st[i] = "done" => OwnResult(i)
                    /\ st[i] = "awaiting" => res[i] = Pending
                /\ pc = "returned" => \A i \in Tasks : st[i] = "done" /\ attempts[i] = 1)
    /\ [][NeverRunAgain]_vars

\* a finished Schwab wave in which a task failed, after its one request
C7_Witness ==
    /\ fn = "schwab"
    /\ pc = "returned"
    /\ \E i \in Tasks : branch[i] = "except" /\ attempts[i] = 1 /\ st[i] = "done"

\* the entry itself carries the identifier it was requested for: the cusip
\* in its CUSIP field, or the label in its target_tenor field
NamesIdentifier(entry, item) ==
    \/ "CUSIP" \in DOMAIN entry /\ entry.CUSIP = item.cusip
    \/ /\ item.label # 0
       /\ "target_tenor" \in DOMAIN entry
       /\ entry.target_tenor = item.label

\* C8: every requested identifier, those whose task failed included, is
\* represented in schwab_treasury_cusip_search's result by an entry that
\* itself names it.
C8_EveryIdentifierNamed ==
    (fn = "schwab" /\ pc = "returned") =>
        /\ Len(ret.v) = Len(args.cusips.items)
        /\ \A i \in DOMAIN ret.v : NamesIdentifier(ret.v[i], args.cusips.items[i])

\* C10: when every page request succeeds the result is page 1's records,
\* then page 2's, ..., each page's in their own order, whatever order the
\* page tasks finished in, and as long as the pages together.
C10_PageOrder ==
    (fn = "auctions" /\ pc = "returned") =>
        /\ Len(ret.v) = SumLens([i \in DOMAIN res |-> res[i].data])
        /\ \A i \in Tasks : \A j \in DOMAIN res[i].data :
                << keys[i].number, j >> \in Range(ret.v)
        /\ \A a, b \in DOMAIN ret.v :
                a < b =>
                    \/ ret.v[a][1] < ret.v[b][1]
                    \/ ret.v[a][1] = ret.v[b][1] /\ ret.v[a][2] < ret.v[b][2]

\* two pages of two records each, all four returned
C10_Witness ==
    /\ fn = "auctions"
    /\ pc = "returned"
    /\ Len(keys) = 2
    /\ Len(ret.v) = 4

\* the chunks task i has read from its own response, in order
OwnBytes(i, n) == [k \in 1..n |-> Chunk(i, k)]

\* C9: within one wave of multi_download_year_treasury_par_yield_curve_rate
\* over two or more distinct years no task writes or deletes what a sibling
\* reads, writes or deletes: while a task holds its csv file open the file
\* holds exactly the bytes that task has written out, and the table a task
\* returns is built only from the bytes of its own response.
C9_NoSharedTempFile ==
    (fn = "yield" /\ Len(args.years) >= 2 /\ PairwiseDistinct(args.years)) =>
        \A i \in Tasks :
            /\ fh[i].open =>
                /\ files[CsvPath(keys[i])].exists
                /\ files[CsvPath(keys[i])].bytes = OwnBytes(i, fh[i].n - Len(fh[i].buf))
            /\ (st[i] = "done" /\ res[i].val.kind = "table") =>
                \E n \in 1..MaxChunks : res[i].val.bytes = OwnBytes(i, n)

\* ------------------------------------------- properties of the resolvers

\* ------------------------------------------------------ find_closest_dates

\* Largest number of candidate records (objects, or rows of df).
MaxCandidates == 3

\* Largest number of targets in years.
MaxTargets == 2

\* timedelta(days=int(year * 360)): the days a target year counts
DAYS_PER_TARGET_YEAR == 360

\* datetime.today(), a day number
TodayUniverse == {0}

\* a target, a fraction of a year: num / den
Target(num, den) == [num |-> num, den |-> den]

\* targets: 1.0, 0.999, and 1/480 of a year (three quarters of a day)
TargetUniverse == {Target(1, 1), Target(999, 1000), Target(1, 480)}

\* candidate records with two date fields, day numbers counted from today 0:
\* 0 is 2025-01-01, 365 is 2026-01-01, 1826 is 2030-01-01
CandidateUniverse ==
    { [id |-> "a", date |-> 0, maturity_date |-> 1826],
      [id |-> "b", date |-> 365, maturity_date |-> 355],
      [id |-> "c", date |-> 1826, maturity_date |-> 0],
      [id |-> "d", date |-> 355, maturity_date |-> 365],
      [id |-> "e", date |-> 365, maturity_date |-> 365] }

DateKeys == {"date", "maturity_date"}

\* obj[date_key]
DateOf(obj, date_key) == IF date_key = "date" THEN obj.date ELSE obj.maturity_date

CandidateLists ==
    {s \in SeqsUpTo(CandidateUniverse, MaxCandidates) :
        \A i, j \in DOMAIN s : i # j => s[i] # s[j]}

\* years: lists of different targets
TargetLists ==
    {s \in SeqsUpTo(TargetUniverse, MaxTargets) :
        \A i, j \in DOMAIN s : i # j => s[i] # s[j]}

\* the caller's frame: rows with unique labels, 0, 1, ... down the frame or,
\* for a frame that was reordered, up the frame, and the column names
CallerFrames ==
    {[kind |-> "df",
      rows |-> [i \in DOMAIN s |->
                    [label |-> IF up THEN Len(s) - i ELSE i - 1, rec |-> s[i]]],
      columns |-> {"id", "date", "maturity_date"}] :
        s \in CandidateLists, up \in BOOLEAN}

Abs(x) == IF x < 0 THEN 0 - x ELSE x

\* int(year * 360): the product cut to a whole number of days
IntYearTimes360(year) == (year.num * DAYS_PER_TARGET_YEAR) \div year.den

\* today + timedelta(days=int(year * 360))
TargetDate(today, year) == today + IntYearTimes360(year)

\* the last position of dates at the least distance from target_date
LastClosestPosition(dates, target_date) ==
    MaxOf({i \in DOMAIN dates :
            \A j \in DOMAIN dates :
                Abs(dates[i] - target_date) <= Abs(dates[j] - target_date)})

\* min(objects, key=...) and idxmin(): the first position at the least
\* distance from target_date
ClosestPosition(dates, target_date) ==
    MinOf({i \in DOMAIN dates :
            \A j \in DOMAIN dates :
                Abs(dates[i] - target_date) <= Abs(dates[j] - target_date)})

\* the record-list branch: one (closest_object, target_date) a target
ClosestObjects(years, objects, date_key, today) ==
    [y \in DOMAIN years |->
        LET target_date == TargetDate(today, years[y])
            dates == [i \in DOMAIN objects |-> DateOf(objects[i], date_key)]
        IN  [closest_object |-> objects[ClosestPosition(dates, target_date)],
             target_date |-> target_date]]

\* the DataFrame branch: df.loc[label of the least temp_diff], with
\* target_date and target_tenor added, relabelled 0, 1, ...
ClosestRows(years, rows, date_key, today) ==
    [y \in DOMAIN years |->
        LET target_date == TargetDate(today, years[y])
            temp_diff == [i \in DOMAIN rows |-> DateOf(rows[i].rec, date_key)]
            idxmin == rows[ClosestPosition(temp_diff, target_date)].label
            closest_row == CHOOSE r \in Range(rows) : r.label = idxmin
        IN  [label |-> y - 1, rec |-> closest_row.rec,
             target_date |-> target_date, target_tenor |-> years[y]]]

\* find_closest_dates(years, objects, df, date_key): what it returns or
\* raises, and the caller's frame afterwards.  In the DataFrame branch an
\* empty frame makes idxmin raise with temp_diff already added, and an empty
\* years makes the drop of temp_diff raise.
FindClosestDates(years, objects, df, date_key, today) ==
    IF objects # << >>
    THEN [branch |-> "return", df |-> df,
          value |-> [kind |-> "list",
                     results |-> ClosestObjects(years, objects, date_key, today)]]
    ELSE IF df.kind = "None"
    THEN [branch |-> "return", df |-> df, value |-> None]
    ELSE IF years = << >>
    THEN [branch |-> "raise", df |-> df, value |-> Pending]
    ELSE IF df.rows = << >>
    THEN [branch |-> "raise", value |-> Pending,
          df |-> [df EXCEPT !.columns = @ \cup {"temp_diff"}]]
    ELSE [branch |-> "return", df |-> df,
          value |-> [kind |-> "frame",
                     rows |-> ClosestRows(years, df.rows, date_key, today)]]

\* the calls: with a record list, or with a DataFrame or neither
MatcherArgs ==
    {[years |-> ys, objects |-> os, df |-> None, date_key |-> k, today |-> t] :
        ys \in TargetLists,
        os \in CandidateLists \ {<< >>},
        k \in DateKeys, t \in TodayUniverse}
    \cup
    {[years |-> ys, objects |-> << >>, df |-> d, date_key |-> k, today |-> t] :
        ys \in TargetLists,
        d \in CallerFrames \cup {None},
        k \in DateKeys, t \in TodayUniverse}

InitMatcher ==
    /\ fn = "find_closest_dates"
    /\ args \in MatcherArgs
    /\ pc = "start"
    /\ links = NoLinksYet
    /\ keys = << >>
    /\ st = << >>
    /\ branch = << >>
    /\ res = << >>
    /\ attempts = << >>
    /\ orch = "idle"
    /\ ret = NoValue
    /\ files = << >>
    /\ fh = << >>

\* what the call computes
Matched ==
    FindClosestDates(args.years, args.objects, args.df, args.date_key, args.today)

\* a call of find_closest_dates that returns; the caller's frame is the
\* object the call worked on
MatcherReturns ==
    /\ fn = "find_closest_dates"
    /\ pc = "start"
    /\ Matched.branch = "return"
    /\ ret' = [kind |-> "value", v |-> Matched.value]
    /\ args' = [args EXCEPT !.df = Matched.df]
    /\ pc' = "returned"
    /\ UNCHANGED << fn, links, taskVars, orch, fileVars >>

\* a call of find_closest_dates that raises
MatcherRaises ==
    /\ fn = "find_closest_dates"
    /\ pc = "start"
    /\ Matched.branch = "raise"
    /\ args' = [args EXCEPT !.df = Matched.df]
    /\ pc' = "raised"
    /\ UNCHANGED << fn, links, taskVars, orch, ret, fileVars >>

NextMatcher ==
    \/ MatcherReturns
    \/ MatcherRaises

SpecMatcher == InitMatcher /\ [][NextMatcher]_vars

ResolverReturned == fn \in {"off_the_run", "on_the_run"} /\ pc = "returned"

\* the history the call was made on
History == IF fn = "off_the_run" THEN args.auctions_json ELSE args.json_data

\* a record that passes the filters of the function called: its type is not
\* one the function excludes, it is not a reopened bill, and, for
\* get_last_n_off_the_run_cusips, it was auctioned by the current time
NotExcluded(r) ==
    /\ r.security_type \notin
            (IF fn = "off_the_run" THEN ExcludedSecurityTypes
             ELSE OnTheRunExcludedTypes)
    /\ ~(r.security_type = "Bill"
            /\ r.original_security_term # r.security_term_week_year)
    /\ fn = "off_the_run" => r.auction_date <= args.current_date

EligibleOfTerm(t) ==
    {r \in Range(History) : NotExcluded(r) /\ r.original_security_term = t}

\* cusips identify the records of a history
RecordOfCusip(c) == CHOOSE r \in Range(History) : r.cusip = c

\* the cusips a returned layer reports
LayerCusips(layer) ==
    IF args.filtered THEN {layer[k] : k \in DOMAIN layer}
    ELSE {layer[i].cusip : i \in DOMAIN layer}

\* the cusips the call reports as on-the-run
OnTheRunCusips ==
    IF fn = "off_the_run" THEN LayerCusips(ret.v.layers[1])
    ELSE IF ret.v.kind = "list" THEN Range(ret.v.cusips)
    ELSE IF ret.v.kind = "dict" THEN {ret.v.dict[k] : k \in DOMAIN ret.v.dict}
    ELSE IF ret.v.kind = "frame" THEN {ret.v.rows[i].cusip : i \in DOMAIN ret.v.rows}
    ELSE {}

\* C11: the record reported for a term in layer 0 of
\* get_last_n_off_the_run_cusips, and the record get_on_the_run_cusips
\* reports for a term, is a record of that term that passes the filters and
\* whose issue_date is the maximum among such records; no term is reported
\* twice.
C11_OnTheRunIsLatestIssue ==
    ResolverReturned =>
        /\ \A c \in OnTheRunCusips :
            LET r == RecordOfCusip(c)
            IN  /\ NotExcluded(r)
                /\ \A q \in EligibleOfTerm(r.original_security_term) :
                        q.issue_date <= r.issue_date
        /\ \A c, d \in OnTheRunCusips :
            RecordOfCusip(c).original_security_term
                = RecordOfCusip(d).original_security_term => c = d

\* C11: a call has reported the on-the-run record of a term that has an
\* older record passing the filters as well
C11_Witness ==
    /\ ResolverReturned
    /\ fn = "off_the_run"
    /\ \E c \in OnTheRunCusips :
        \E q \in EligibleOfTerm(RecordOfCusip(c).original_security_term) :
            q.issue_date < RecordOfCusip(c).issue_date

\* the issue dates of a term's records that pass the filters, most recent
\* first, one entry a record
RECURSIVE IssueDatesDescending(_)
IssueDatesDescending(rs) ==
    IF rs = {} THEN << >>
    ELSE LET m == CHOOSE r \in rs : \A q \in rs : q.issue_date <= r.issue_date
         IN  << m.issue_date >> \o IssueDatesDescending(rs \ {m})

\* the record layer l (counted from 1 in the returned list) reports for
\* term t, as a set: empty when the layer has no entry for the term
LayerRecordsOfTerm(l, t) ==
    {RecordOfCusip(c) : c \in
        {d \in LayerCusips(ret.v.layers[l]) :
            RecordOfCusip(d).original_security_term = t}}

\* C12: in get_last_n_off_the_run_cusips(n), for every k in 1..n and every
\* mapped term with at least k+1 records passing the filters, layer k has an
\* entry for the term and it is a record of the term with the (k+1)-th most
\* recent issue_date, whatever the records' positions in the fetched history.
C12_OffTheRunRank ==
    (fn = "off_the_run" /\ pc = "returned") =>
        \A k \in 1..args.n :
            \A t \in DOMAIN TenorMapping :
                Cardinality(EligibleOfTerm(t)) >= k + 1 =>
                    /\ Len(ret.v.layers) >= k + 1
                    /\ \E r \in LayerRecordsOfTerm(k + 1, t) :
                        /\ NotExcluded(r)
                        /\ r.issue_date
                            = IssueDatesDescending(EligibleOfTerm(t))[k + 1]

\* the cusips the call reports, in any layer
ReportedCusips ==
    IF fn = "off_the_run"
    THEN UNION {LayerCusips(ret.v.layers[l]) : l \in DOMAIN ret.v.layers}
    ELSE OnTheRunCusips

ReopenedBill(r) ==
    /\ r.security_type = "Bill"
    /\ r.original_security_term # r.security_term_week_year

\* r passes the filters and is the only most recently issued such record of
\* its term
SoleLatest(r) ==
    /\ NotExcluded(r)
    /\ \A q \in EligibleOfTerm(r.original_security_term) \ {r} :
            q.issue_date < r.issue_date

\* C13: no record of type TIPS, TIPS Note, TIPS Bond, FRN, FRN Note, FRN Bond
\* or CMB is in any layer get_last_n_off_the_run_cusips returns, the most
\* recently issued record of its term included.
C13_ExcludedTypesNeverReported ==
    (fn = "off_the_run" /\ pc = "returned") =>
        /\ \A c \in ReportedCusips :
                RecordOfCusip(c).security_type \notin ExcludedSecurityTypes
        /\ ~args.filtered =>
                \A l \in DOMAIN ret.v.layers : \A i \in DOMAIN ret.v.layers[l] :
                    ret.v.layers[l][i].security_type \notin ExcludedSecurityTypes

\* C13: layers were returned for a history whose most recently issued
\* 52-Week record is of an excluded type
C13_Witness ==
    /\ fn = "off_the_run" /\ pc = "returned"
    /\ \E x \in Range(History) :
        /\ x.security_type \in ExcludedSecurityTypes
        /\ \E c \in OnTheRunCusips :
            /\ RecordOfCusip(c).original_security_term = x.original_security_term
            /\ RecordOfCusip(c).issue_date < x.issue_date

\* C14: a bill whose original term differs from its term is never reported
\* by get_last_n_off_the_run_cusips or get_on_the_run_cusips; a bill whose
\* two terms are equal is still reported when it is the latest of its term
\* (of a mapped term, for the layers).
C14_ReopenedBillsNeverReported ==
    ResolverReturned =>
        /\ \A c \in ReportedCusips : ~ReopenedBill(RecordOfCusip(c))
        /\ \A r \in Range(History) :
            (/\ r.security_type = "Bill"
             /\ ~ReopenedBill(r)
             /\ SoleLatest(r)
             /\ fn = "on_the_run" => ret.v.kind # "None"
             /\ fn = "off_the_run" => r.original_security_term \in DOMAIN TenorMapping)
                => r.cusip \in OnTheRunCusips

\* C14: a bill with equal terms was reported for a history that also holds a
\* more recently issued reopened bill of the same original term
C14_Witness ==
    /\ ResolverReturned
    /\ \E b \in Range(History) :
        /\ ReopenedBill(b)
        /\ \E c \in OnTheRunCusips :
            /\ RecordOfCusip(c).security_type = "Bill"
            /\ RecordOfCusip(c).original_security_term = b.original_security_term
            /\ RecordOfCusip(c).issue_date < b.issue_date

\* C15: no record auctioned after the current time is in any layer
\* get_last_n_off_the_run_cusips returns, layer 0 included; a record
\* auctioned at or before it is still reported when it is the latest of its
\* mapped term.
C15_FutureAuctionsNeverReported ==
    (fn = "off_the_run" /\ pc = "returned") =>
        /\ \A c \in ReportedCusips :
                RecordOfCusip(c).auction_date <= args.current_date
        /\ \A r \in Range(History) :
            (/\ r.auction_date <= args.current_date
             /\ SoleLatest(r)
             /\ r.original_security_term \in DOMAIN TenorMapping)
                => r.cusip \in OnTheRunCusips

\* C15: layers were returned for a history with a record auctioned after the
\* current time, more recently issued than the record reported for its term,
\* and with a reported record auctioned exactly at the current time
C15_Witness ==
    /\ fn = "off_the_run" /\ pc = "returned"
    /\ \E f \in Range(History) :
        /\ f.auction_date > args.current_date
        /\ \E c \in OnTheRunCusips :
            /\ RecordOfCusip(c).original_security_term = f.original_security_term
            /\ RecordOfCusip(c).issue_date < f.issue_date
    /\ \E c \in OnTheRunCusips :
            RecordOfCusip(c).auction_date = args.current_date

ValuesOfMapping == {TenorMapping[t] : t \in DOMAIN TenorMapping}

\* the layers of records the same call builds before it collapses them
UncollapsedLayers ==
    GetLastNOffTheRunCusips(args.auctions_json, args.n, FALSE,
                            args.current_date, args.kind).value.layers

\* a layer of records: mapped terms only, strictly ascending by tenor
WellFormedLayer(layer) ==
    /\ \A i \in DOMAIN layer :
        /\ layer[i].original_security_term \in DOMAIN TenorMapping
        /\ layer[i].target_tenor
            = [kind |-> "tenor",
               tenor |-> TenorMapping[layer[i].original_security_term]]
    /\ \A i, j \in DOMAIN layer :
        i < j => layer[i].target_tenor.tenor < layer[j].target_tenor.tenor
    /\ \A i, j \in DOMAIN layer :
        i # j => layer[i].original_security_term # layer[j].original_security_term

\* C16: every layer get_last_n_off_the_run_cusips returns holds at most one
\* record a term, only records of mapped terms, in strictly ascending order
\* of numeric tenor; with filtered=True the layer's mapping has exactly one
\* key for every record of the layer, the record's tenor mapped to its cusip.
C16_LayersWellFormed ==
    (fn = "off_the_run" /\ pc = "returned") =>
        IF ~args.filtered
        THEN \A l \in DOMAIN ret.v.layers : WellFormedLayer(ret.v.layers[l])
        ELSE /\ Len(ret.v.layers) = Len(UncollapsedLayers)
             /\ \A l \in DOMAIN ret.v.layers :
                LET d == ret.v.layers[l]
                    layer == UncollapsedLayers[l]
                IN  /\ WellFormedLayer(layer)
                    /\ Cardinality(DOMAIN d) = Len(layer)
                    /\ \A k \in DOMAIN d :
                        k.kind = "tenor" /\ k.tenor \in ValuesOfMapping
                    /\ \A i \in DOMAIN layer :
                        /\ layer[i].target_tenor \in DOMAIN d
                        /\ d[layer[i].target_tenor] = layer[i].cusip

\* C16: a layer of two records was returned, 52-Week ahead of 2-Year, for a
\* history that also holds a record of a term the mapping lacks
C16_Witness ==
    /\ fn = "off_the_run" /\ pc = "returned"
    /\ \E r \in Range(History) :
        NotExcluded(r) /\ r.original_security_term \notin DOMAIN TenorMapping
    /\ Cardinality(LayerCusips(ret.v.layers[1])) >= 2

C18_KeysAreMappedTenors ==
    (fn = "on_the_run" /\ pc = "returned" /\ ret.v.kind = "dict") =>
        \A k \in DOMAIN ret.v.dict :
            k.kind = "tenor" /\ k.tenor \in ValuesOfMapping


\* ------------------------------------------- properties: find_closest_dates

MatcherReturned == fn = "find_closest_dates" /\ pc = "returned"

\* the candidates of the call, in input order
Candidates ==
    IF args.objects # << >> THEN args.objects
    ELSE IF args.df.kind = "df" THEN [i \in DOMAIN args.df.rows |-> args.df.rows[i].rec]
    ELSE << >>

\* the records and target dates a returned call reports, one a target
Selections ==
    IF ret.v.kind = "list"
    THEN [y \in DOMAIN ret.v.results |->
            [rec |-> ret.v.results[y].closest_object,
             target_date |-> ret.v.results[y].target_date]]
    ELSE IF ret.v.kind = "frame"
    THEN [y \in DOMAIN ret.v.rows |->
            [rec |-> ret.v.rows[y].rec, target_date |-> ret.v.rows[y].target_date]]
    ELSE << >>

Distance(c, target_date) == Abs(DateOf(c, args.date_key) - target_date)

\* r is at the least distance from target_date, and no candidate before it in
\* input order is as close
FirstClosest(r, target_date) ==
    \E i \in DOMAIN Candidates :
        /\ Candidates[i] = r
        /\ \A j \in DOMAIN Candidates :
                Distance(r, target_date) <= Distance(Candidates[j], target_date)
        /\ \A j \in 1..(i - 1) :
                Distance(Candidates[j], target_date) > Distance(r, target_date)

\* the worked example: maturities 2025-01-01, 2026-01-01, 2030-01-01 (days 0,
\* 365, 1826), today 2025-01-01 (day 0) and the single target 1.0
IsExample ==
    /\ args.today = 0
    /\ args.years = << Target(1, 1) >>
    /\ [i \in DOMAIN Candidates |-> DateOf(Candidates[i], args.date_key)]
            = << 0, 365, 1826 >>

\* C19: for every target and every non-empty candidate set, in record-list
\* mode and in DataFrame mode, the record reported for the target is a
\* candidate no farther from the target date than any other candidate, and
\* the first such candidate in input order; in the worked example the record
\* of 2026-01-01 is reported.
C19_ClosestFirstInInputOrder ==
    (MatcherReturned /\ Candidates # << >>) =>
        /\ Len(Selections) = Len(args.years)
        /\ \A y \in DOMAIN Selections :
                FirstClosest(Selections[y].rec, Selections[y].target_date)
        /\ IsExample => DateOf(Selections[1].rec, args.date_key) = 365

\* a DataFrame call, with labels running up the frame, in which two
\* candidates tie for a target and the first of them is reported
C19_Witness ==
    /\ MatcherReturned
    /\ ret.v.kind = "frame"
    /\ Len(args.df.rows) >= 2
    /\ args.df.rows[1].label # 0
    /\ \E y \in DOMAIN Selections : \E i, j \in DOMAIN Candidates :
            /\ i < j
            /\ Selections[y].rec = Candidates[i]
            /\ Distance(Candidates[i], Selections[y].target_date)
                    = Distance(Candidates[j], Selections[y].target_date)

\* the value the description gives: round(year * 360), halves to the even
RoundYearTimes360(year) ==
    LET p == year.num * DAYS_PER_TARGET_YEAR
        q == p \div year.den
        twice == 2 * (p % year.den)
    IN  IF twice > year.den \/ (twice = year.den /\ q % 2 = 1) THEN q + 1 ELSE q

\* C20: for every target the target date used is today plus
\* round(target * 360) days, also where target * 360 is not a whole number.
C20_TargetDateRounds ==
    MatcherReturned =>
        \A y \in DOMAIN Selections :
            Selections[y].target_date
                = args.today + RoundYearTimes360(args.years[y])


\* the results of a returned call, one entry a result: the tuples of the
\* record-list branch or the rows of the DataFrame branch
ResultEntries ==
    IF ret.v.kind = "list" THEN ret.v.results
    ELSE IF ret.v.kind = "frame" THEN ret.v.rows
    ELSE << >>

\* C21: for every list of targets and every non-empty candidate set, in
\* record-list mode and in DataFrame mode, there is one result a target, in
\* target order, and each result carries its target date and the numeric
\* tenor it was resolved for.
C21_OneAnnotatedResultPerTarget ==
    (MatcherReturned /\ Candidates # << >>) =>
        /\ Len(ResultEntries) = Len(args.years)
        /\ \A y \in DOMAIN ResultEntries :
                /\ "target_date" \in DOMAIN ResultEntries[y]
                /\ ResultEntries[y].target_date
                        = TargetDate(args.today, args.years[y])
                /\ "target_tenor" \in DOMAIN ResultEntries[y]
                /\ ResultEntries[y].target_tenor = args.years[y]


\* C22: a call with at least one target and an empty candidate set (no
\* objects and no DataFrame, or an empty DataFrame) raises; it never returns
\* a value.
C22_EmptyCandidatesRaise ==
    (fn = "find_closest_dates" /\ args.years # << >> /\ Candidates = << >>) =>
        pc # "returned"


\* the columns of the caller's frame before the call
ColumnsBefore == {"id", "date", "maturity_date"}

\* C30: in DataFrame mode, over a frame with rows, the call returns for
\* every list of targets, the empty list included (with an empty result),
\* and on return the caller's frame has the columns it had before the call.
C30_FrameModeReturnsAndRestoresColumns ==
    (fn = "find_closest_dates" /\ args.df.kind = "df" /\ args.df.rows # << >>) =>
        /\ pc # "raised"
        /\ pc = "returned" =>
                /\ args.df.columns = ColumnsBefore
                /\ args.years = << >> => ResultEntries = << >>


\* ------------------------------------------------------ properties: waves

\* the call is back with its caller, by return or by exception, and no task
\* of the wave is left waiting
WaveFinished ==
    /\ pc \in {"returned", "raised"}
    /\ \A i \in Tasks : st[i] # "awaiting"

Reorderings(h) ==
    {g \in [DOMAIN h -> Range(h)] : Range(g) = Range(h)}

\* C26: for any two orderings of the same set of auction records in which
\* issue dates are pairwise distinct within each term,
\* get_last_n_off_the_run_cusips (same n, same current time) returns the same
\* layers: the result depends on the set of records only, not on the
\* positions the pages delivered them at.
C26_OrderIndependent ==
    (fn = "off_the_run" /\ pc = "returned" /\ ~HasTie(args.auctions_json)) =>
        \A g \in Reorderings(args.auctions_json) :
            LET other == GetLastNOffTheRunCusips(
                             g, args.n, args.filtered, args.current_date, args.kind)
            IN  /\ other.branch = "return"
                /\ other.value = ret.v


\* the mapped terms that have a record passing the filters
EligibleMappedTerms == {t \in DOMAIN TenorMapping : EligibleOfTerm(t) # {}}

\* C28: get_last_n_off_the_run_cusips(n) returns at most n + 1 layers for
\* every n >= 0, the first of them the on-the-run layer with one record a
\* mapped term that has a record passing the filters; with n = 0 and at
\* least one such term it returns, and returns exactly one layer.
C28_AtMostNPlusOneLayers ==
    fn = "off_the_run" =>
        /\ pc = "returned" =>
            /\ Len(ret.v.layers) >= 1
            /\ Len(ret.v.layers) <= args.n + 1
            /\ {RecordOfCusip(c).original_security_term :
                    c \in LayerCusips(ret.v.layers[1])} = EligibleMappedTerms
            /\ args.n = 0 => Len(ret.v.layers) = 1
        /\ (args.n = 0 /\ EligibleMappedTerms # {}) => pc # "raised"

\* a call with n = 0 over a history with two eligible records of a mapped
\* term returned one layer
C28_Witness ==
    /\ fn = "off_the_run"
    /\ pc = "returned"
    /\ \E t \in EligibleMappedTerms : Cardinality(EligibleOfTerm(t)) >= 2
    /\ args.n = 0
    /\ Len(ret.v.layers) = 1


\* ------------------------------------------ properties: tables and quotes

\* a task of the named coroutine has run to its end
TaskEnded(name) == fn = name /\ pc = "returned"

\* the response was 200 and pd.read_html made a table of it
TableParsed == args.response.kind = "html" /\ args.response.ntables >= 1

\* row j has the greatest Estimated Total and no row before it has as much
IsFirstMax(rows, j) ==
    /\ \A k \in DOMAIN rows : rows[k].total <= rows[j].total
    /\ \A k \in 1..(j - 1) : rows[k].total < rows[j].total

\* C23: for every cusip whose Schwab quote table is fetched and parsed with
\* at least one row, the record returned for it is the row with the greatest
\* Estimated Total (of rows with 100 and 150 the 150 row), and of the rows
\* tied at the greatest the first in table order; where that row's Maturity
\* is not a date nothing is returned, never another row.
C23_BestQuoteIsFirstMax ==
    ( /\ TaskEnded("fetch_from_schwab_treasury_cusip_search")
      /\ TableParsed
      /\ args.response.rows # << >> )
    => \E j \in DOMAIN args.response.rows :
        /\ IsFirstMax(args.response.rows, j)
        /\ IF MaturityMinusToday(args.response.rows[j].maturity).ok
           THEN /\ ret.v.kind = "quote"
                /\ ret.v.row = j
                /\ ret.v.total = args.response.rows[j].total
                /\ ret.v.maturity = args.response.rows[j].maturity
           ELSE ret.v = EmptyDict

\* a table whose two rows tie at the greatest Estimated Total, 150, and the
\* first of them returned
C23_Witness ==
    /\ TaskEnded("fetch_from_schwab_treasury_cusip_search")
    /\ Len(args.response.rows) = 2
    /\ args.response.rows[1].total = 150
    /\ args.response.rows[2].total = 150
    /\ ret.v.kind = "quote"
    /\ ret.v.row = 1

\* s holds the elements of all that satisfy keep, each once, in the order of all
IsFiltered(s, all, keep(_)) ==
    /\ Range(s) = {x \in Range(all) : keep(x)}
    /\ \E f \in [DOMAIN s -> DOMAIN all] :
        /\ \A a \in DOMAIN s : s[a] = all[f[a]]
        /\ \A a, b \in DOMAIN s : a < b => f[a] < f[b]

\* the requested cusips the table lacks were reported, and the table returned
\* holds the rows of the requested cusips, all of them and no other
MissingReportedAndRowsKept ==
    LET InTable(c) == c \in Range(args.response.rows)
        Requested_(c) == c \in Range(args.cusips.list)
        Missing(c) == ~InTable(c)
    IN  /\ branch = << "return" >>
        /\ IsFiltered(ret.printed, args.cusips.list, Missing)
        /\ ret.v.key = args.date
        /\ ret.v.val.kind = "table"
        /\ IsFiltered(ret.v.val.rows, args.response.rows, Requested_)

\* the task of a date has ended, called with a cusip list, its table
\* retrieved
TableRetrievedForList ==
    /\ TaskEnded("fetch_prices_from_treasury_date_search")
    /\ args.cusips.given
    /\ TableParsed
    /\ args.response.cusipCol

\* C24 as stated: in fetch_historical_prices called with a cusip list, for
\* every date whose table is retrieved, the requested cusips absent from the
\* table are reported before the table is filtered, and the table returned
\* for the date holds exactly the rows whose CUSIP is in the requested list.
C24_AsStated == TableRetrievedForList => MissingReportedAndRowsKept

\* C24, for a list that names at least one cusip: for every date whose table
\* is retrieved, the requested cusips absent from the table are reported
\* before the table is filtered, and the table returned for the date holds
\* exactly the rows whose CUSIP is in the requested list; a missing cusip
\* neither empties the result nor drops the rows of the cusips present.
C24_MissingReportedRowsKept ==
    (TableRetrievedForList /\ args.cusips.list # << >>) =>
        MissingReportedAndRowsKept

\* two cusips requested of a table that has one of them and another
\* security: the missing one reported, the row of the other returned
C24_Witness ==
    /\ TableRetrievedForList
    /\ Len(args.cusips.list) = 2
    /\ Len(args.response.rows) = 2
    /\ Len(ret.printed) = 1
    /\ Len(ret.v.val.rows) = 1

\* C27: fetch_historical_prices called without a cusip list (cusips left at
\* None) returns, for every date whose request and table parse succeed, the
\* date's complete unfiltered price table rather than an empty result.
C27_WholeTableWithoutCusips ==
    ( /\ TaskEnded("fetch_prices_from_treasury_date_search")
      /\ ~args.cusips.given
      /\ TableParsed )
    => /\ ret.v.val.kind = "table"
       /\ ret.v.val.rows = args.response.rows

\* C29: in every populated basket get_cme_delivery_basket returns the otr
\* table is treated like the ctd table: its first row, the header row
\* labelled 0, is promoted to the column names and removed from the data,
\* and every other row of the source table, labelled 1, 2, ..., is kept.
C29_OtrHeaderPromoted ==
    ( /\ TaskEnded("fetch_cme_delivery_basket_data")
      /\ ret.v.val.kind = "basket" )
    => LET data == [j \in 1..(args.response.otr - 1) |-> j]
       IN  ret.v.val.otr =
                IF args.bond_info_to_dict THEN << data[1] >> ELSE data

=============================================================================
